---- MODULE Spec2Model ----
(***************************************************************************)
(* Model of cleakr's diagnostic parser (src/python/cleakr_analysis.py):    *)
(* extract_leaks groups clang-tidy output lines into blocks, one block per *)
(* run of headers at one (file, line, col), and emits one record per       *)
(* (file, zero-based line).                                                *)
(*                                                                         *)
(* A text line is abstracted to what the header regex can see of it:       *)
(*   shape "hdr"  the line reads <file>:<f1>:<f2>: <severity>: <text>      *)
(*                with severity one of warning, note, error;               *)
(*         "txt"  any other line;                                          *)
(*   file         the text before the first ":<f1>:<f2>:";                 *)
(*   ln, col      int(<f1>), int(<f2>) when the field is a digit string,   *)
(*                -1 when it is not (\d+ cannot match it);                 *)
(*   sev          the severity word;                                       *)
(*   kw           <text> contains leak, malloc, free or memory.            *)
(* A message (raw_message) is a sequence of such lines with NL tokens      *)
(* between them.                                                           *)
(***************************************************************************)
EXTENDS Integers, Sequences, FiniteSets, TLC

\* ------------------------------------------------------------------ bounds
MaxLen  == 4   \* longest input, in lines
MaxLine == 1   \* largest reported line number
MaxCol  == 1   \* largest reported column number
MaxCalls   == 2   \* most invocations of extract_leaks in one behaviour
MaxCallLen == 3   \* longest input of an invocation when there are several
MaxMsg     == 5   \* longest message given to extract_var_name alone, in tokens
MaxAst     == 2   \* longest AST dump, in lines
MaxAstLen  == 2   \* longest input parsed against the AST dumps

\* --------------------------------------------------------- the line alphabet
Line(shape, file, ln, col, sev, kw) ==
  [shape |-> shape, file |-> file, ln |-> ln, col |-> col, sev |-> sev, kw |-> kw]

\* "a.c:l:1: warning: leak 'p'" for every line l, 0 included, and
\* "a.c:1:c: warning: leak" for every other column c, 0 included
KwHeaders ==
  { Line("hdr", "a.c", l, 1, "warning", TRUE) : l \in 0..MaxLine } \cup
  { Line("hdr", "a.c", 1, c, "warning", TRUE) : c \in 0..MaxCol }
\* "b.c:1:1: warning: leak unknown=malloc"
OtherFileHeader == Line("hdr", "b.c", 1, 1, "warning", TRUE)
\* "a.c:1:1: note: 'malloc'"
NoteHeader == Line("hdr", "a.c", 1, 1, "note", TRUE)
\* "a.c:1:1: warning: 'p'": header-shaped, no keyword
NoKwHeader == Line("hdr", "a.c", 1, 1, "warning", FALSE)
\* "a.c:x:1: warning: leak": the line field is not a digit string
BadNumHeader == Line("hdr", "a.c", -1, 1, "warning", TRUE)
\* "  p = malloc": a line of source quoted under a diagnostic
PlainText == Line("txt", "", -1, -1, "", FALSE)

LineSet ==
  KwHeaders \cup {OtherFileHeader, NoteHeader, NoKwHeader, BadNumHeader, PlainText}

\* the "\n" that str.join puts between two lines
NL == Line("nl", "", -1, -1, "", FALSE)

\* ---------------------------------------------------------------- the state
\* The for loop looks at one line at a time and never ahead, so the input is
\* handed to it line by line: lines is the part of clang_output.splitlines()
\* the loop has taken so far, the whole input once pc = "done".
VARIABLES
  lines,             \* the lines of clang_output.splitlines() read so far
  pc,                \* "loop" while in the for loop, "done" after the return
  leaks,             \* the list of emitted records
  seen_lines,        \* set of (file, zero-based line) already emitted
  current_block,     \* lines of the open block
  current_location,  \* (file, line, col) of the last header, or None
  ast_output,        \* the second argument of extract_leaks
  invocation,        \* number of the running invocation of extract_leaks
  earlier,           \* (filename, lnum) of the records earlier invocations returned
  mpc,               \* position of the process: module setup, then main()
  config,            \* what the process finds: API key, argv, clang-tidy, clang
  response,          \* what the chat completion call did
  stdout,            \* payloads printed on standard output, in order
  status,            \* "running", or the exit status of the process
  stderr,            \* what the process wrote on standard error when it ended
  summaries_and_fixes, \* main()'s list of (summary, fix) pairs
  message,           \* the argument of a call of extract_var_name on its own
  returned           \* what that call returned, NotReturned before it does

\* what is outside one invocation of extract_leaks
outer == <<ast_output, invocation, earlier, mpc, config, response, stdout, status,
           stderr, summaries_and_fixes, message, returned>>

vars == <<lines, pc, leaks, seen_lines, current_block, current_location,
          ast_output, invocation, earlier, mpc, config, response, stdout, status,
          stderr, summaries_and_fixes, message, returned>>

\* ast_output = ""
NoAst == <<>>

\* everything main() needs is there
AllPresent == [api_key |-> TRUE, argv |-> TRUE, clang_tidy |-> TRUE, clang |-> TRUE]

\* no chat completion call was made
NoResponse == [kind |-> "none", items |-> <<>>]

\* nothing on standard error
NoMessage == ""

None == [file |-> "None", ln |-> -1, col |-> -1]

\* the header regex without its keyword group
pattern_nokw(line) ==
  /\ line.shape = "hdr"
  /\ line.ln >= 0
  /\ line.col >= 0
  /\ line.sev \in {"warning", "note", "error"}

\* re.compile(r"^(.*?):(\d+):(\d+):\s+(warning|note|error):\s.*?(leak|malloc|free|memory)", re.IGNORECASE)
pattern(line) ==
  /\ line.shape = "hdr"
  /\ line.ln >= 0
  /\ line.col >= 0
  /\ line.sev \in {"warning", "note", "error"}
  /\ line.kw

\* (match.group(1), int(match.group(2)), int(match.group(3)))
new_location(line) == [file |-> line.file, ln |-> line.ln, col |-> line.col]

\* "\n".join(block)
RECURSIVE Join(_)
Join(block) ==
  IF block = <<>> THEN <<>>
  ELSE IF Len(block) = 1 THEN block
  ELSE <<Head(block), NL>> \o Join(Tail(block))

\* ------------------------------------------------------- extract_var_name
\* The text the three patterns search is a sequence of tokens: a token is a
\* whole word (a maximal run of \w characters), or one character that is not
\* a word character.  Two words are never adjacent.
Words == {"p", "unknown", "malloc", "leak"}

Spaces == {" ", "\n"}

\* the last character of a word, and whether the word has two or more
LastChar(w) == CASE w = "p" -> "p" [] w = "unknown" -> "n" [] w = "malloc" -> "c"
                 [] w = "leak" -> "k" [] OTHER -> w

Splits(w) == w \in {"unknown", "malloc", "leak"}

\* the word begins with malloc, calloc or realloc
StartsWithAlloc(w) == w \in {"malloc", "calloc", "realloc"}

\* re.search found nothing; a capture is never empty
NoMatch == <<>>

\* the return value "unknown"
Unknown == <<"unknown">>

NotReturned == <<"", "">>

\* \s* from position k: the first position that is not white space
RECURSIVE SkipSpace(_, _)
SkipSpace(m, k) ==
  IF k <= Len(m) /\ m[k] \in Spaces THEN SkipSpace(m, k + 1) ELSE k

Leftmost(S) == CHOOSE p \in S : \A q \in S : p <= q

\* r"'([^']+)'"
Quoted(m) ==
  LET starts == { p \in 1..Len(m) :
                    /\ m[p] = "'"
                    /\ p + 1 <= Len(m) /\ m[p + 1] # "'"
                    /\ \E q \in (p + 2)..Len(m) : m[q] = "'" }
  IN IF starts = {} THEN NoMatch
     ELSE LET p == Leftmost(starts)
              q == Leftmost({ q \in (p + 2)..Len(m) : m[q] = "'" })
          IN SubSeq(m, p + 1, q - 1)

\* \s*=\s*(malloc|calloc|realloc) from position k
AssignsAlloc(m, k) ==
  LET a == SkipSpace(m, k)
      b == SkipSpace(m, a + 1)
  IN /\ a <= Len(m) /\ m[a] = "="
     /\ b <= Len(m) /\ StartsWithAlloc(m[b])

\* r"\w+\s*\*?\s*(\w+)\s*=\s*(malloc|calloc|realloc)" tried at the word at p:
\* "type *name = malloc" captures name; with one word before the "=", \w+
\* gives its last character back to the group
DeclAt(m, p) ==
  LET j == SkipSpace(m, p + 1)
      g == IF j <= Len(m) /\ m[j] = "*" THEN SkipSpace(m, j + 1) ELSE j
  IN IF g <= Len(m) /\ g > p /\ m[g] \in Words /\ AssignsAlloc(m, g + 1)
     THEN <<m[g]>>
     ELSE IF Splits(m[p]) /\ AssignsAlloc(m, p + 1)
     THEN <<LastChar(m[p])>>
     ELSE NoMatch

DeclAlloc(m) ==
  LET starts == { p \in 1..Len(m) : m[p] \in Words /\ DeclAt(m, p) # NoMatch }
  IN IF starts = {} THEN NoMatch ELSE DeclAt(m, Leftmost(starts))

\* r"(\w+)\s*=\s*\w+"
Assignment(m) ==
  LET starts == { p \in 1..Len(m) :
                    /\ m[p] \in Words
                    /\ LET a == SkipSpace(m, p + 1)
                           b == SkipSpace(m, a + 1)
                       IN /\ a <= Len(m) /\ m[a] = "="
                          /\ b <= Len(m) /\ m[b] \in Words }
  IN IF starts = {} THEN NoMatch ELSE <<m[Leftmost(starts)]>>

\* re.search(patterns[k], raw_message), group 1
Search(k, m) ==
  CASE k = 1 -> Quoted(m)
    [] k = 2 -> DeclAlloc(m)
    [] k = 3 -> Assignment(m)

\* the loop with the generic assignment tried before the declaration
RECURSIVE TryFrom_swapped(_, _)
TryFrom_swapped(k, m) ==
  IF k > 3 THEN Unknown
  ELSE LET order == <<1, 3, 2>> IN
       IF Search(order[k], m) # NoMatch THEN Search(order[k], m)
       ELSE TryFrom_swapped(k + 1, m)

\* for pattern in patterns: ... return match.group(1); return "unknown"
RECURSIVE TryFrom(_, _)
TryFrom(k, m) ==
  IF k > 3 THEN Unknown
  ELSE IF Search(k, m) # NoMatch THEN Search(k, m)
  ELSE TryFrom(k + 1, m)

extract_var_name(m) == TryFrom(1, m)

\* the tokens of one line of the alphabet; the "file:line:col: severity:"
\* of a header-shaped line, into which no pattern can match, is one ":"
LineText(line) ==
  CASE line.shape = "nl" -> <<"\n">>
    [] line.shape = "txt" -> <<" ", " ", "p", " ", "=", " ", "malloc">>
    [] line.shape = "hdr" /\ ~line.kw -> <<":", " ", "'", "p", "'">>
    [] line.shape = "hdr" /\ line.kw /\ line.sev = "note" ->
         <<":", " ", "'", "malloc", "'">>
    [] line.shape = "hdr" /\ line.kw /\ line.sev # "note" /\ line.file = "b.c" ->
         <<":", " ", "leak", " ", "unknown", "=", "malloc">>
    [] line.shape = "hdr" /\ line.kw /\ line.sev # "note" /\ line.file # "b.c"
         /\ line.col = 1 /\ line.ln >= 0 ->
         <<":", " ", "leak", " ", "'", "p", "'">>
    [] OTHER -> <<":", " ", "leak">>

\* the tokens of a message
RECURSIVE Text(_)
Text(msg) == IF msg = <<>> THEN <<>> ELSE LineText(Head(msg)) \o Text(Tail(msg))

\* ---------------------------------------------------- extract_ast_context
\* A line of the AST dump is abstracted to what extract_ast_context tests:
\*   targets   the numbers N with "line:N" in the line;
\*   func, var "FunctionDecl", "VarDecl" in the line;
\*   call      "CallExpr" and one of malloc, calloc, free in the line;
\*   parts     line.split("'");
\*   names     the variable names that occur in the line.
\* "FunctionDecl <line:1:1, line:2:1> main 'int ()'"
AstFunc == [targets |-> {1, 2}, func |-> TRUE, var |-> FALSE, call |-> FALSE,
            parts |-> <<"FunctionDecl <line:1:1, line:2:1> main ", "int ()", "">>,
            names |-> {<<"n">>, <<"c">>}]
\* "VarDecl <line:1:3> p 'char *' cinit"
AstVar == [targets |-> {1}, func |-> FALSE, var |-> TRUE, call |-> FALSE,
           parts |-> <<"VarDecl <line:1:3> p ", "char *", " cinit">>,
           names |-> {<<"p">>, <<"n">>, <<"c">>}]
\* "CallExpr <line:2:7> malloc"
AstCall == [targets |-> {2}, func |-> FALSE, var |-> FALSE, call |-> TRUE,
            parts |-> <<"CallExpr <line:2:7> malloc">>,
            names |-> {<<"p">>, <<"n">>, <<"c">>, <<"malloc">>}]
\* "ReturnStmt <line:1:3>"
AstOther == [targets |-> {1}, func |-> FALSE, var |-> FALSE, call |-> FALSE,
             parts |-> <<"ReturnStmt <line:1:3>">>,
             names |-> {<<"n">>}]

AstLineSet == {AstFunc, AstVar, AstCall, AstOther}

AstInputs == UNION { [1..n -> AstLineSet] : n \in 0..MaxAst }

\* "; ".join(context_info)
RECURSIVE JoinInfo(_)
JoinInfo(info) ==
  IF Len(info) <= 1 THEN info
  ELSE <<Head(info), "; ">> \o JoinInfo(Tail(info))

\* the for loop over the lines of the dump
RECURSIVE ContextInfo(_, _, _)
ContextInfo(ast, line_num, var_name) ==
  IF ast = <<>> THEN <<>>
  ELSE LET line == Head(ast)
           rest == ContextInfo(Tail(ast), line_num, var_name)
       IN IF line_num \notin line.targets THEN rest
          ELSE IF line.func /\ Len(line.parts) > 1
          THEN <<"function: " \o line.parts[2]>> \o rest
          ELSE IF line.var /\ var_name \in line.names /\ Len(line.parts) > 1
          THEN IF Len(line.parts) > 2
               THEN <<"type: " \o line.parts[Len(line.parts) - 1]>> \o rest
               ELSE rest
          ELSE IF line.call THEN <<"allocation call found">> \o rest
          ELSE rest

extract_ast_context(ast, line_num, var_name) ==
  IF ast = NoAst THEN <<"No AST context">>
  ELSE IF ContextInfo(ast, line_num, var_name) = <<>>
  THEN <<"Basic AST info available">>
  ELSE JoinInfo(ContextInfo(ast, line_num, var_name))

\* the record with the reported line kept one-based
leak_entry_onebased(block, loc) ==
  [filename    |-> loc.file,
   lnum        |-> loc.ln,
   col         |-> loc.col - 1,
   raw_message |-> Join(block),
   var_name    |-> extract_var_name(Text(Join(block))),
   ast_context |-> extract_ast_context(ast_output, loc.ln,
                                       extract_var_name(Text(Join(block))))]

leak_entry(block, loc) ==
  [filename    |-> loc.file,
   lnum        |-> loc.ln - 1,
   col         |-> loc.col - 1,
   raw_message |-> Join(block),
   var_name    |-> extract_var_name(Text(Join(block))),
   ast_context |-> extract_ast_context(ast_output, loc.ln,
                                       extract_var_name(Text(Join(block))))]

\* a dedup key that keeps the column
line_key_col(loc) == <<loc.file, loc.ln - 1, loc.col>>

line_key(loc) == <<loc.file, loc.ln - 1>>

\* a block is only recorded when the AST dump says something about it
save_current_block_needsast(block, loc, seen, out) ==
  IF block = <<>> \/ loc = None
  THEN [seen |-> seen, out |-> out]
  ELSE IF line_key(loc) \in seen
          \/ leak_entry(block, loc).ast_context
               \in {<<"No AST context">>, <<"Basic AST info available">>}
       THEN [seen |-> seen, out |-> out]
       ELSE [seen |-> seen \cup {line_key(loc)},
             out  |-> Append(out, leak_entry(block, loc))]

\* a duplicate replaces the record emitted before it
save_current_block_lastwins(block, loc, seen, out) ==
  IF block = <<>> \/ loc = None
  THEN [seen |-> seen, out |-> out]
  ELSE IF line_key(loc) \in seen
       THEN [seen |-> seen,
             out  |-> [k \in 1..Len(out) |->
                        IF <<out[k].filename, out[k].lnum>> = line_key(loc)
                        THEN leak_entry(block, loc)
                        ELSE out[k]]]
       ELSE [seen |-> seen \cup {line_key(loc)},
             out  |-> Append(out, leak_entry(block, loc))]

\* leaks.insert(0, leak_entry) in place of leaks.append(leak_entry)
save_current_block_prepend(block, loc, seen, out) ==
  IF block = <<>> \/ loc = None
  THEN [seen |-> seen, out |-> out]
  ELSE IF line_key(loc) \in seen
       THEN [seen |-> seen, out |-> out]
       ELSE [seen |-> seen \cup {line_key(loc)},
             out  |-> <<leak_entry(block, loc)>> \o out]

\* save_current_block(): the new values of seen_lines and leaks
save_current_block(block, loc, seen, out) ==
  IF block = <<>> \/ loc = None
  THEN [seen |-> seen, out |-> out]
  ELSE IF line_key(loc) \in seen
       THEN [seen |-> seen, out |-> out]
       ELSE [seen |-> seen \cup {line_key(loc)},
             out  |-> Append(out, leak_entry(block, loc))]

Init ==
  /\ lines = <<>>
  /\ pc = "loop"
  /\ leaks = <<>>
  /\ seen_lines = {}
  /\ current_block = <<>>
  /\ current_location = None
  /\ ast_output = NoAst
  /\ invocation = 1
  /\ earlier = {}
  /\ mpc = "extract_leaks"
  /\ config = AllPresent
  /\ response = NoResponse
  /\ stdout = <<>>
  /\ status = "running"
  /\ stderr = NoMessage
  /\ summaries_and_fixes = <<>>
  /\ message = <<>>
  /\ returned = NotReturned

\* the non-matching line appended without the "if current_block" test
NonHeaderLine_always(line) ==
  /\ pc = "loop"
  /\ Len(lines) < MaxLen
  /\ ~pattern(line)
  /\ current_block' = Append(current_block, line)
  /\ lines' = Append(lines, line)
  /\ UNCHANGED <<pc, leaks, seen_lines, current_location, outer>>

\* loop body for the next line of the input, "if not match" branch
NonHeaderLine(line) ==
  /\ pc = "loop"
  /\ Len(lines) < MaxLen
  /\ ~pattern(line)
  /\ current_block' = IF current_block # <<>>
                      THEN Append(current_block, line)
                      ELSE current_block
  /\ lines' = Append(lines, line)
  /\ UNCHANGED <<pc, leaks, seen_lines, current_location, outer>>

\* the matched line without "current_block = []" after the save
HeaderLine_noreset(line) ==
  /\ pc = "loop"
  /\ Len(lines) < MaxLen
  /\ pattern(line)
  /\ LET loc    == new_location(line)
         closes == current_location # None /\ loc # current_location
         saved  == save_current_block(current_block, current_location,
                                      seen_lines, leaks)
     IN /\ seen_lines' = IF closes THEN saved.seen ELSE seen_lines
        /\ leaks' = IF closes THEN saved.out ELSE leaks
        /\ current_block' = Append(current_block, line)
        /\ current_location' = loc
  /\ lines' = Append(lines, line)
  /\ UNCHANGED <<pc, outer>>

\* a matched line that closes the open block even at the same location
HeaderLine_alwaysclose(line) ==
  /\ pc = "loop"
  /\ Len(lines) < MaxLen
  /\ pattern(line)
  /\ LET loc    == new_location(line)
         closes == current_location # None
         saved  == save_current_block(current_block, current_location,
                                      seen_lines, leaks)
     IN /\ seen_lines' = IF closes THEN saved.seen ELSE seen_lines
        /\ leaks' = IF closes THEN saved.out ELSE leaks
        /\ current_block' = Append(IF closes THEN <<>> ELSE current_block, line)
        /\ current_location' = loc
  /\ lines' = Append(lines, line)
  /\ UNCHANGED <<pc, outer>>

\* a matched line at a new location that drops the open block unsaved
HeaderLine_nosave(line) ==
  /\ pc = "loop"
  /\ Len(lines) < MaxLen
  /\ pattern(line)
  /\ LET loc    == new_location(line)
         closes == current_location # None /\ loc # current_location
     IN /\ current_block' = Append(IF closes THEN <<>> ELSE current_block, line)
        /\ current_location' = loc
  /\ lines' = Append(lines, line)
  /\ UNCHANGED <<pc, leaks, seen_lines, outer>>

\* loop body for the next line of the input, matched line
HeaderLine(line) ==
  /\ pc = "loop"
  /\ Len(lines) < MaxLen
  /\ pattern(line)
  /\ LET loc    == new_location(line)
         closes == current_location # None /\ loc # current_location
         saved  == save_current_block(current_block, current_location,
                                      seen_lines, leaks)
     IN /\ seen_lines' = IF closes THEN saved.seen ELSE seen_lines
        /\ leaks' = IF closes THEN saved.out ELSE leaks
        /\ current_block' = Append(IF closes THEN <<>> ELSE current_block, line)
        /\ current_location' = loc
  /\ lines' = Append(lines, line)
  /\ UNCHANGED <<pc, outer>>

\* the return without the final save_current_block()
Return_noflush ==
  /\ pc = "loop"
  /\ pc' = "done"
  /\ UNCHANGED <<lines, leaks, seen_lines, current_block, current_location, outer>>

\* the input is exhausted: the final save_current_block() and the return
Return ==
  /\ pc = "loop"
  /\ LET saved == save_current_block(current_block, current_location,
                                     seen_lines, leaks)
     IN /\ seen_lines' = saved.seen
        /\ leaks' = saved.out
  /\ pc' = "done"
  /\ UNCHANGED <<lines, current_block, current_location, outer>>

Next ==
  \/ \E line \in LineSet : NonHeaderLine(line)
  \/ \E line \in LineSet : HeaderLine(line)
  \/ Return

Spec == Init /\ [][Next]_vars

\* ------------------------------------------- extract_leaks called repeatedly
\* a further call that finds the seen set of the call before it
Invoke_sharedseen ==
  /\ pc = "done"
  /\ invocation < MaxCalls
  /\ invocation' = invocation + 1
  /\ earlier' = earlier \cup { <<leaks[k].filename, leaks[k].lnum>> : k \in 1..Len(leaks) }
  /\ lines' = <<>>
  /\ pc' = "loop"
  /\ leaks' = <<>>
  /\ current_block' = <<>>
  /\ current_location' = None
  /\ UNCHANGED <<seen_lines, ast_output, mpc, config, response, stdout, status,
                 stderr, summaries_and_fixes, message, returned>>

\* a further call of extract_leaks: its locals are created anew
Invoke ==
  /\ pc = "done"
  /\ invocation < MaxCalls
  /\ invocation' = invocation + 1
  /\ earlier' = earlier \cup { <<leaks[k].filename, leaks[k].lnum>> : k \in 1..Len(leaks) }
  /\ lines' = <<>>
  /\ pc' = "loop"
  /\ leaks' = <<>>
  /\ seen_lines' = {}
  /\ current_block' = <<>>
  /\ current_location' = None
  /\ UNCHANGED <<ast_output, mpc, config, response, stdout, status,
                 stderr, summaries_and_fixes, message, returned>>

\* -------------------------------------------- extract_leaks with AST dumps
InitAst ==
  /\ ast_output \in AstInputs
  /\ lines = <<>>
  /\ pc = "loop"
  /\ leaks = <<>>
  /\ seen_lines = {}
  /\ current_block = <<>>
  /\ current_location = None
  /\ invocation = 1
  /\ earlier = {}
  /\ mpc = "extract_leaks"
  /\ config = AllPresent
  /\ response = NoResponse
  /\ stdout = <<>>
  /\ status = "running"
  /\ stderr = NoMessage
  /\ summaries_and_fixes = <<>>
  /\ message = <<>>
  /\ returned = NotReturned

NextAst ==
  \/ \E line \in LineSet : Len(lines) < MaxAstLen /\ NonHeaderLine(line)
  \/ \E line \in LineSet : Len(lines) < MaxAstLen /\ HeaderLine(line)
  \/ Return

SpecAst == InitAst /\ [][NextAst]_vars

\* ------------------------------------------------ extract_var_name alone
VarTokens == {"p", "unknown", "malloc", "'", "=", "*", " "}

\* no two words side by side
WellFormed(m) == \A k \in 1..(Len(m) - 1) : ~(m[k] \in Words /\ m[k + 1] \in Words)

Messages ==
  { m \in UNION { [1..n -> VarTokens] : n \in 0..MaxMsg } : WellFormed(m) }

InitVar ==
  /\ message \in Messages
  /\ returned = NotReturned
  /\ lines = <<>>
  /\ pc = "idle"
  /\ leaks = <<>>
  /\ seen_lines = {}
  /\ current_block = <<>>
  /\ current_location = None
  /\ ast_output = NoAst
  /\ invocation = 0
  /\ earlier = {}
  /\ mpc = "extract_var_name"
  /\ config = AllPresent
  /\ response = NoResponse
  /\ stdout = <<>>
  /\ status = "running"
  /\ stderr = NoMessage
  /\ summaries_and_fixes = <<>>

CallExtractVarName ==
  /\ returned = NotReturned
  /\ mpc = "extract_var_name"
  /\ returned' = extract_var_name(message)
  /\ UNCHANGED <<lines, pc, leaks, seen_lines, current_block, current_location,
                 ast_output, invocation, earlier, mpc, config, response, stdout,
                 status, stderr, summaries_and_fixes, message>>

NextVar == CallExtractVarName

SpecVar == InitVar /\ [][NextVar]_vars

NextCalls ==
  \/ \E line \in LineSet : Len(lines) < MaxCallLen /\ NonHeaderLine(line)
  \/ \E line \in LineSet : Len(lines) < MaxCallLen /\ HeaderLine(line)
  \/ Return
  \/ Invoke

SpecCalls == Init /\ [][NextCalls]_vars

\* ------------------------------------------------ the process: setup, main()
MaxMainLen == 2   \* longest clang-tidy output main() parses, in lines
MaxResp    == 2   \* longest array the chat completion answers with

\* the arguments of fail()
NoKeyMsg == "OPENAI_API_KEY not found"
ArgsMsg == "Incorrect number of args. Are you running this directly? Expects a path to a .c file."
NoTidyMsg == "clang-tidy not found."
NoClangMsg == "clang not found."
\* the message, which the code has followed by the response itself
LenMsg == "Response len is not the same length as the number of leaks."
NoSummaryMsg == "LLM did not return a valid summary."
NoFixMsg == "LLM did not return a valid fix."
FailMsgs == {NoKeyMsg, ArgsMsg, NoTidyMsg, NoClangMsg, LenMsg, NoSummaryMsg, NoFixMsg}

\* what the interpreter writes for an exception nobody caught
Traceback == "Traceback (most recent call last):"

\* what the process may find when it starts
Configs == [api_key : BOOLEAN, argv : BOOLEAN, clang_tidy : BOOLEAN, clang : BOOLEAN]

\* a key the object does not have
Absent == "KeyError"

\* the elements of a response array:
\*   {"summary": "s", "fix": "f"}   {"summary": "", "fix": "f"}
\*   {"summary": "s", "fix": ""}    {}
Items == { [summary |-> "s", fix |-> "f"], [summary |-> "", fix |-> "f"],
           [summary |-> "s", fix |-> ""], [summary |-> Absent, fix |-> Absent] }

\* what the chat completion call does: it raises, it answers with text that is
\* not JSON, or it answers with an array
Responses ==
  {[kind |-> "raise", items |-> <<>>], [kind |-> "malformed", items |-> <<>>]}
  \cup { [kind |-> "array", items |-> it] :
           it \in UNION { [1..n -> Items] : n \in 0..MaxResp } }

\* how a call ends: it returns, it calls fail(), or an exception leaves it
Returned(results) == [how |-> "return", msg |-> NoMessage, results |-> results]
Failed(msg) == [how |-> "fail", msg |-> msg, results |-> <<>>]
Raised == [how |-> "raise", msg |-> Traceback, results |-> <<>>]

\* the loop over response_json
RECURSIVE ResultsFrom(_, _, _)
ResultsFrom(response_json, k, results) ==
  IF k > Len(response_json) THEN Returned(results)
  ELSE LET result == response_json[k] IN
    IF result.summary = Absent \/ result.fix = Absent THEN Raised
    ELSE IF result.summary = "" THEN Failed(NoSummaryMsg)
    ELSE IF result.fix = "" THEN Failed(NoFixMsg)
    ELSE ResultsFrom(response_json, k + 1,
                     Append(results, <<result.summary, result.fix>>))

\* the summarizer without the comparison of the two lengths
summarize_all_leaks_with_llm_nolencheck(ls, resp) ==
  IF ls = <<>> THEN Returned(<<>>)
  ELSE IF resp.kind \in {"raise", "malformed"} THEN Raised
  ELSE ResultsFrom(resp.items, 1, <<>>)

summarize_all_leaks_with_llm(ls, resp) ==
  IF ls = <<>> THEN Returned(<<>>)
  ELSE IF resp.kind \in {"raise", "malformed"} THEN Raised
  ELSE IF Len(resp.items) # Len(ls) THEN Failed(LenMsg)
  ELSE ResultsFrom(resp.items, 1, <<>>)

\* zip(leaks, summaries_and_fixes) made into diagnostics
diagnostics ==
  LET n == IF Len(leaks) < Len(summaries_and_fixes)
           THEN Len(leaks) ELSE Len(summaries_and_fixes)
  IN [k \in 1..n |-> [filename |-> leaks[k].filename, line |-> leaks[k].lnum,
                      col |-> leaks[k].col,
                      summary |-> summaries_and_fixes[k][1],
                      fix |-> summaries_and_fixes[k][2]]]

loading_data == [k \in 1..Len(leaks) |-> [line |-> leaks[k].lnum]]

\* the locals of extract_leaks
parser == <<lines, pc, leaks, seen_lines, current_block, current_location>>

\* sys.exit(msg): the message on standard error, exit status 1
fail(msg) ==
  /\ mpc' = "exited"
  /\ status' = "exit 1"
  /\ stderr' = msg

InitMain ==
  /\ config \in Configs
  /\ mpc = "setup"
  /\ lines = <<>>
  /\ pc = "idle"
  /\ leaks = <<>>
  /\ seen_lines = {}
  /\ current_block = <<>>
  /\ current_location = None
  /\ ast_output = NoAst
  /\ invocation = 0
  /\ earlier = {}
  /\ response = NoResponse
  /\ stdout = <<>>
  /\ status = "running"
  /\ stderr = NoMessage
  /\ summaries_and_fixes = <<>>
  /\ message = <<>>
  /\ returned = NotReturned

\* the module's client setup
ClientSetup ==
  /\ mpc = "setup"
  /\ IF ~config.api_key THEN fail(NoKeyMsg)
     ELSE mpc' = "main" /\ UNCHANGED <<status, stderr>>
  /\ UNCHANGED <<parser, ast_output, invocation, earlier, config, response, stdout,
                 summaries_and_fixes, message, returned>>

\* main(): the argument count
MainArgs ==
  /\ mpc = "main"
  /\ IF ~config.argv THEN fail(ArgsMsg)
     ELSE mpc' = "run_clang_tidy" /\ UNCHANGED <<status, stderr>>
  /\ UNCHANGED <<parser, ast_output, invocation, earlier, config, response, stdout,
                 summaries_and_fixes, message, returned>>

\* run_clang_tidy: its output is what extract_leaks then reads, "" included
RunClangTidy ==
  /\ mpc = "run_clang_tidy"
  /\ IF ~config.clang_tidy THEN fail(NoTidyMsg)
     ELSE mpc' = "run_clang_ast" /\ UNCHANGED <<status, stderr>>
  /\ UNCHANGED <<parser, ast_output, invocation, earlier, config, response, stdout,
                 summaries_and_fixes, message, returned>>

\* what run_clang_ast returns: "" after an exception, or the dump
MainAsts == {NoAst, <<AstFunc, AstVar>>}

\* run_clang_ast answering "" also when clang is not found
RunClangAst_nofail ==
  /\ mpc = "run_clang_ast"
  /\ \E ast \in MainAsts :
       /\ config.clang \/ ast = NoAst
       /\ ast_output' = ast
  /\ mpc' = "extract_leaks"
  /\ pc' = "loop"
  /\ invocation' = 1
  /\ UNCHANGED <<lines, leaks, seen_lines, current_block, current_location,
                 earlier, config, response, stdout, status, stderr,
                 summaries_and_fixes, message, returned>>

\* run_clang_ast, and with its result the call of extract_leaks
RunClangAst ==
  /\ mpc = "run_clang_ast"
  /\ IF ~config.clang
     THEN fail(NoClangMsg) /\ UNCHANGED <<ast_output, pc, invocation>>
     ELSE /\ \E ast \in MainAsts : ast_output' = ast
          /\ mpc' = "extract_leaks"
          /\ pc' = "loop"
          /\ invocation' = 1
          /\ UNCHANGED <<status, stderr>>
  /\ UNCHANGED <<lines, leaks, seen_lines, current_block, current_location,
                 earlier, config, response, stdout,
                 summaries_and_fixes, message, returned>>

\* "if leaks: print LOADING"
PrintLoading ==
  /\ mpc = "extract_leaks"
  /\ pc = "done"
  /\ stdout' = IF leaks # <<>>
               THEN Append(stdout, [tag |-> "LOADING", data |-> loading_data])
               ELSE stdout
  /\ mpc' = "summarize"
  /\ UNCHANGED <<parser, ast_output, invocation, earlier, config, response,
                 status, stderr, summaries_and_fixes, message, returned>>

\* "summarize_all_leaks_with_llm(leaks) if leaks else []"
Summarize ==
  /\ mpc = "summarize"
  /\ IF leaks = <<>>
     THEN /\ summaries_and_fixes' = <<>>
          /\ mpc' = "final"
          /\ UNCHANGED <<response, status, stderr>>
     ELSE \E resp \in Responses :
            LET end == summarize_all_leaks_with_llm(leaks, resp) IN
            /\ response' = resp
            /\ IF end.how = "return"
               THEN /\ summaries_and_fixes' = end.results
                    /\ mpc' = "final"
                    /\ UNCHANGED <<status, stderr>>
               ELSE fail(end.msg) /\ UNCHANGED summaries_and_fixes
  /\ UNCHANGED <<parser, ast_output, invocation, earlier, config, stdout,
                 message, returned>>

\* one FINAL payload for each diagnostic
PrintFinal_perrecord ==
  /\ mpc = "final"
  /\ stdout' = stdout \o [k \in 1..Len(diagnostics) |->
                            [tag |-> "FINAL", data |-> <<diagnostics[k]>>]]
  /\ mpc' = "exited"
  /\ status' = "exit 0"
  /\ UNCHANGED <<parser, ast_output, invocation, earlier, config, response,
                 stderr, summaries_and_fixes, message, returned>>

\* the diagnostics printed, and main() returns
PrintFinal ==
  /\ mpc = "final"
  /\ stdout' = Append(stdout, [tag |-> "FINAL", data |-> diagnostics])
  /\ mpc' = "exited"
  /\ status' = "exit 0"
  /\ UNCHANGED <<parser, ast_output, invocation, earlier, config, response,
                 stderr, summaries_and_fixes, message, returned>>

NextMain ==
  \/ ClientSetup
  \/ MainArgs
  \/ RunClangTidy
  \/ RunClangAst
  \/ \E line \in LineSet : Len(lines) < MaxMainLen /\ NonHeaderLine(line)
  \/ \E line \in LineSet : Len(lines) < MaxMainLen /\ HeaderLine(line)
  \/ Return
  \/ PrintLoading
  \/ Summarize
  \/ PrintFinal

SpecMain == InitMain /\ [][NextMain]_vars

\* ------------------------------------------------- reading the input back
\* what the input says, independently of the loop's variables

HeaderIdx == { k \in 1..Len(lines) : pattern(lines[k]) }

LocAt(k) == new_location(lines[k])

KeyAt(k) == <<lines[k].file, lines[k].ln - 1>>

RecKey(r) == <<r.filename, r.lnum>>

\* the header before line k, 0 when there is none
RECURSIVE PrevHeader(_)
PrevHeader(k) ==
  IF k <= 1 THEN 0
  ELSE IF pattern(lines[k - 1]) THEN k - 1
  ELSE PrevHeader(k - 1)

\* a header opens a block when it is the first header or its location
\* differs from the previous header's
BlockStarts ==
  { k \in HeaderIdx : PrevHeader(k) = 0 \/ LocAt(PrevHeader(k)) # LocAt(k) }

Min(S) == CHOOSE s \in S : \A t \in S : s <= t

\* the block opened at s, bs being BlockStarts
BlockOf(bs, s) ==
  LET later == { t \in bs : t > s }
  IN SubSeq(lines, s, IF later = {} THEN Len(lines) ELSE Min(later) - 1)

\* the first block opened at a (file, line), bs being BlockStarts
FirstStartOfKey(bs, key) == Min({ s \in bs : KeyAt(s) = key })

\* blocks that are the first of their (file, line), bs being BlockStarts
FirstStarts(bs) == { s \in bs : \A t \in bs : t < s => KeyAt(t) # KeyAt(s) }

RecordsAt(key) == { k \in 1..Len(leaks) : RecKey(leaks[k]) = key }

\* the lines of a message
MsgLines(msg) == SelectSeq(msg, LAMBDA t : t # NL)

Done == pc = "done"

\* --------------------------------------------------------------------- C1
\* C1: at every point of a run, no two records of leaks have the same
\* (filename, lnum); col plays no part.
C1_UniqueFileLine ==
  \A a, b \in 1..Len(leaks) : a # b => RecKey(leaks[a]) # RecKey(leaks[b])

\* two blocks on one (file, line) with different columns were both closed
C1_Witness ==
  /\ Done
  /\ \E s, t \in BlockStarts :
       s < t /\ KeyAt(s) = KeyAt(t) /\ lines[s].col # lines[t].col
  /\ Len(leaks) >= 1

\* --------------------------------------------------------------------- C2
\* C2: two headers at one file and line with different columns, anywhere in
\* the input, give exactly one record for that file and line, and its col and
\* raw_message are those of the first block opened there.
C2_FirstBlockWins ==
  Done =>
    LET bs == BlockStarts IN
    \A s, t \in HeaderIdx :
      (s < t /\ KeyAt(s) = KeyAt(t) /\ lines[s].col # lines[t].col) =>
        LET first == FirstStartOfKey(bs, KeyAt(s)) IN
          /\ Cardinality(RecordsAt(KeyAt(s))) = 1
          /\ \A k \in RecordsAt(KeyAt(s)) :
               /\ leaks[k].col = lines[first].col - 1
               /\ leaks[k].raw_message = Join(BlockOf(bs, first))

\* same line, different columns, separated by a block somewhere else
C2_Witness ==
  /\ Done
  /\ \E s, u, t \in BlockStarts :
       /\ s < u /\ u < t
       /\ KeyAt(s) = KeyAt(t) /\ lines[s].col # lines[t].col
       /\ KeyAt(u) # KeyAt(s)
       /\ Cardinality(RecordsAt(KeyAt(s))) = 1
       /\ Len(leaks) = 2

\* --------------------------------------------------------------------- C3
\* the input is one header, one or more non-header lines, one more header
HeaderNotesHeader ==
  /\ Len(lines) >= 3
  /\ pattern(lines[1])
  /\ \A k \in 2..(Len(lines) - 1) : ~pattern(lines[k])
  /\ pattern(lines[Len(lines)])

TwoGroups ==
  /\ Len(leaks) = 2
  /\ leaks[1].raw_message = Join(SubSeq(lines, 1, Len(lines) - 1))
  /\ leaks[2].raw_message = Join(<<lines[Len(lines)]>>)

\* C3 as stated: a header, its non-header lines, then a header at another
\* location (file, line or column differs) give exactly two records, the two
\* line groups.
C3_Original ==
  (Done /\ HeaderNotesHeader /\ LocAt(Len(lines)) # LocAt(1)) => TwoGroups

\* C3 amended: a header, its non-header lines, then a header at another file
\* or line give exactly two records whose raw_message are the two line groups
\* joined by newline.
C3_Grouping ==
  (Done /\ HeaderNotesHeader /\ KeyAt(Len(lines)) # KeyAt(1)) => TwoGroups

C3_Witness ==
  /\ Done
  /\ HeaderNotesHeader
  /\ Len(lines) = 4
  /\ lines[2] # lines[3]
  /\ KeyAt(4) # KeyAt(1)
  /\ TwoGroups

\* --------------------------------------------------------------------- C4
\* C4: a block still open after the last line is closed and emitted: when the
\* input ends with a header there is exactly one record for its file and
\* line, and when no earlier header has that file and line the last record is
\* the record of that header alone.
C4_FinalFlush ==
  (Done /\ Len(lines) > 0 /\ pattern(lines[Len(lines)])) =>
    LET n == Len(lines) IN
      /\ Cardinality(RecordsAt(KeyAt(n))) = 1
      /\ (\A j \in HeaderIdx : j < n => KeyAt(j) # KeyAt(n)) =>
           /\ Len(leaks) >= 1
           /\ leaks[Len(leaks)] = leak_entry(<<lines[n]>>, LocAt(n))

\* the input ends with a header that opened a block of its own
C4_Witness ==
  /\ Done
  /\ Len(lines) >= 2
  /\ pattern(lines[Len(lines)])
  /\ Len(lines) \in FirstStarts(BlockStarts)
  /\ leaks[Len(leaks)] = leak_entry(<<lines[Len(lines)]>>, LocAt(Len(lines)))

\* --------------------------------------------------------------------- C5
\* C5: every record carries the location of the first header of its block,
\* made zero-based once (lnum = line - 1, col = column - 1), and the lines
\* appended to an open block leave its location the one of its first header
\* line's file, line and column.
C5_ZeroBasedFromFirstHeader ==
  /\ LET bs == BlockStarts IN
     \A k \in 1..Len(leaks) :
       \E s \in bs :
         /\ Head(leaks[k].raw_message) = lines[s]
         /\ leaks[k].filename = lines[s].file
         /\ leaks[k].lnum = lines[s].ln - 1
         /\ leaks[k].col = lines[s].col - 1
  /\ current_block # <<>> =>
       current_location = new_location(Head(current_block))

\* a record of a block with continuation lines, from a header at 1:1
C5_Witness ==
  /\ Done
  /\ \E k \in 1..Len(leaks) :
       /\ Len(leaks[k].raw_message) >= 3
       /\ Head(leaks[k].raw_message).ln = 1
       /\ Head(leaks[k].raw_message).col = 1
       /\ leaks[k].lnum = 0
       /\ leaks[k].col = 0

\* --------------------------------------------------------------------- C6
HeaderShapedNoKw(l) == l.shape = "hdr" /\ l.ln >= 0 /\ l.col >= 0 /\ ~l.kw

\* C6: a header-shaped line without any of the keywords emits nothing and
\* opens no block: reading it leaves leaks, seen_lines and current_location
\* alone and an empty block empty, and a text line read right after it, with
\* no block open, is dropped.
C6_KeywordGate ==
  [][ LET n == Len(lines') IN
      /\ (n = Len(lines) + 1 /\ HeaderShapedNoKw(lines'[n])) =>
           /\ leaks' = leaks
           /\ seen_lines' = seen_lines
           /\ current_location' = current_location
           /\ (current_block = <<>> => current_block' = <<>>)
      /\ (/\ n = Len(lines) + 1 /\ n > 1
          /\ HeaderShapedNoKw(lines[n - 1])
          /\ lines'[n].shape = "txt"
          /\ current_location = None) =>
           /\ current_block' = <<>>
           /\ leaks' = leaks
    ]_vars

\* keyword-less header first, then text, then a real header: one record, of
\* the real header alone
C6_Witness ==
  /\ Done
  /\ Len(lines) = 3
  /\ HeaderShapedNoKw(lines[1])
  /\ lines[2].shape = "txt"
  /\ pattern(lines[3])
  /\ leaks = <<leak_entry(<<lines[3]>>, LocAt(3))>>

\* --------------------------------------------------------------------- C7
\* C7: records are in the order their blocks were opened: the first block of
\* an earlier record's (file, line) starts before the first block of a later
\* record's, and at the return there is one record per first block, the
\* suppressed duplicates apart.
C7_StreamOrder ==
  LET bs == BlockStarts
      opened == [k \in 1..Len(leaks) |->
                  IF \E s \in bs : KeyAt(s) = RecKey(leaks[k])
                  THEN FirstStartOfKey(bs, RecKey(leaks[k]))
                  ELSE 0]
  IN /\ \A k \in 1..Len(leaks) : opened[k] > 0
     /\ \A a, b \in 1..Len(leaks) : a < b => opened[a] < opened[b]
     /\ Done => Len(leaks) = Cardinality(FirstStarts(bs))

\* two records around a suppressed duplicate
C7_Witness ==
  /\ Done
  /\ Len(leaks) >= 2
  /\ Cardinality(BlockStarts) > Len(leaks)
  /\ \E s, t, u \in BlockStarts :
       s < t /\ t < u /\ KeyAt(s) = KeyAt(t) /\ KeyAt(u) # KeyAt(s)

\* --------------------------------------------------------------------- C8
\* C8: every record's raw_message is non-empty, its first line matches the
\* header pattern and is at the record's location; so no record is made of
\* non-header lines alone.
C8_MessageHasHeader ==
  \A k \in 1..Len(leaks) :
    LET msg == MsgLines(leaks[k].raw_message) IN
      /\ msg # <<>>
      /\ \E m \in 1..Len(msg) : pattern(msg[m])
      /\ pattern(msg[1])
      /\ leak_entry(<<msg[1]>>, new_location(msg[1])).filename = leaks[k].filename
      /\ new_location(msg[1]).ln = leaks[k].lnum + 1
      /\ new_location(msg[1]).col = leaks[k].col + 1

\* non-header lines before the first header, and a record after them
C8_Witness ==
  /\ Done
  /\ Len(lines) >= 3
  /\ ~pattern(lines[1])
  /\ pattern(lines[2])
  /\ ~pattern(lines[3])
  /\ Len(leaks) >= 1
  /\ Len(MsgLines(leaks[1].raw_message)) >= 2

\* --------------------------------------------------------------------- C9
\* C9: as long as no header has been read nothing is kept (no open block, no
\* location, no record), so an empty input and an input without header return
\* no record; every record's raw_message is a run of input lines that starts
\* at a header.
C9_NoHeaderNoRecord ==
  /\ HeaderIdx = {} =>
       /\ current_block = <<>>
       /\ current_location = None
       /\ leaks = <<>>
  /\ \A k \in 1..Len(leaks) :
       \E s \in HeaderIdx : \E e \in s..Len(lines) :
         leaks[k].raw_message = Join(SubSeq(lines, s, e))

\* a whole input of non-header lines was read
C9_Witness ==
  /\ Done
  /\ Len(lines) >= 2
  /\ HeaderIdx = {}
  /\ lines[1] # lines[2]
  /\ leaks = <<>>

\* -------------------------------------------------------------------- C10
\* C10: a header-shaped line whose line or column field is not a positive
\* integer (0 for one) does not match, so it opens no block and every record
\* has lnum >= 0 and col >= 0.
C10_PositiveFields ==
  \A k \in 1..Len(leaks) : leaks[k].lnum >= 0 /\ leaks[k].col >= 0

\* -------------------------------------------------------------------- C11
RECURSIVE Sorted(_)
Sorted(S) == IF S = {} THEN <<>> ELSE <<Min(S)>> \o Sorted(S \ {Min(S)})

\* the records the input asks for: one per first block of a (file, line), in
\* the order the blocks open
ExpectedLeaks ==
  LET bs    == BlockStarts
      order == Sorted(FirstStarts(bs))
  IN [k \in 1..Len(order) |-> leak_entry(BlockOf(bs, order[k]), LocAt(order[k]))]

\* C11: through any sequence of invocations the grouper state is that of the
\* running invocation alone: seen_lines holds only pairs of its own headers,
\* the open block only its own lines, and its result is what its own input
\* asks for, whatever earlier invocations returned.
C11_PrivateState ==
  LET bs == BlockStarts IN
    /\ seen_lines \subseteq { KeyAt(k) : k \in HeaderIdx }
    /\ current_block = IF bs = {} THEN <<>>
                       ELSE SubSeq(lines, CHOOSE s \in bs : \A t \in bs : t <= s,
                                   Len(lines))
    /\ Done => leaks = ExpectedLeaks

\* the second invocation returns a pair the first one returned too
C11_Witness ==
  /\ Done
  /\ invocation = 2
  /\ \E k \in 1..Len(leaks) : RecKey(leaks[k]) \in earlier

\* -------------------------------------------------------------------- C12
\* C12: whatever the AST dump, extract_leaks returns the records the
\* diagnostic text alone asks for: as many, in the same order, with the
\* filename, lnum, col, raw_message and var_name that the text decides; only
\* ast_context is left to the dump.
C12_AstOnlyAnnotates ==
  Done =>
    LET bs    == BlockStarts
        order == Sorted(FirstStarts(bs))
    IN /\ Len(leaks) = Len(order)
       /\ \A k \in 1..Len(order) :
            LET msg == Join(BlockOf(bs, order[k])) IN
              /\ k <= Len(leaks)
              /\ leaks[k].filename = lines[order[k]].file
              /\ leaks[k].lnum = lines[order[k]].ln - 1
              /\ leaks[k].col = lines[order[k]].col - 1
              /\ leaks[k].raw_message = msg
              /\ leaks[k].var_name = extract_var_name(Text(msg))

\* a dump that gives two records two different contexts
C12_Witness ==
  /\ Done
  /\ ast_output # NoAst
  /\ Len(leaks) = 2
  /\ leaks[1].ast_context # leaks[2].ast_context
  /\ leaks[1].ast_context \notin {<<"No AST context">>, <<"Basic AST info available">>}

\* -------------------------------------------------------------------- C13
\* the first strategy, in the order quoted, declaration, assignment, that
\* matches the message; 0 when none does
FirstStrategy(m) ==
  IF Quoted(m) # NoMatch THEN 1
  ELSE IF DeclAlloc(m) # NoMatch THEN 2
  ELSE IF Assignment(m) # NoMatch THEN 3
  ELSE 0

FirstCapture ==
  CASE FirstStrategy(message) = 1 -> Quoted(message)
    [] FirstStrategy(message) = 2 -> DeclAlloc(message)
    [] FirstStrategy(message) = 3 -> Assignment(message)
    [] OTHER -> NoMatch

\* C13 as stated: extract_var_name returns the first capture of the first
\* strategy that matches, in the order quoted, declaration, assignment, and
\* returns "unknown" exactly when no strategy matches.
C13_Original ==
  returned # NotReturned =>
    /\ FirstStrategy(message) # 0 => returned = FirstCapture
    /\ returned = Unknown <=> FirstStrategy(message) = 0

\* C13 amended: extract_var_name returns the first capture of the first
\* strategy that matches, in the order quoted, declaration, assignment,
\* whatever later strategies match, and returns "unknown" when no strategy
\* matches; it also returns "unknown" when that is the captured text.
C13_FirstMatchWins ==
  returned # NotReturned =>
    /\ FirstStrategy(message) # 0 => returned = FirstCapture
    /\ FirstStrategy(message) = 0 => returned = Unknown
    /\ returned = Unknown =>
         FirstStrategy(message) = 0 \/ FirstCapture = <<"unknown">>

\* "unknown=malloc": the declaration pattern gives "n", the assignment
\* pattern, tried later, would give "unknown"
C13_Witness ==
  /\ returned # NotReturned
  /\ Quoted(message) = NoMatch
  /\ DeclAlloc(message) # NoMatch
  /\ Assignment(message) # NoMatch
  /\ Assignment(message) # DeclAlloc(message)
  /\ returned = DeclAlloc(message)

\* -------------------------------------------------------------------- C14
\* the kinds of the payloads printed so far
Tags == [k \in 1..Len(stdout) |-> stdout[k].tag]

Finals == { k \in 1..Len(stdout) : stdout[k].tag = "FINAL" }

\* the call was answered with an array that is not as long as leaks
CountMismatch == response.kind = "array" /\ Len(response.items) # Len(leaks)

\* C14: the summarizer compares the number of results with the number of
\* records: when they differ the process has ended with exit status 1 and the
\* length message on standard error, no (summary, fix) pair reached main() and
\* no FINAL payload was printed; a FINAL payload that is printed after a call
\* carries one diagnostic for each record.
C14_CountValidated ==
  /\ CountMismatch =>
       /\ mpc = "exited"
       /\ status = "exit 1"
       /\ stderr = LenMsg
       /\ summaries_and_fixes = <<>>
       /\ Finals = {}
  /\ \A k \in Finals : Len(stdout[k].data) = Len(leaks)

C14_Witness ==
  /\ CountMismatch
  /\ Len(response.items) > 0
  /\ mpc = "exited"
  /\ stderr = LenMsg
  /\ Tags = <<"LOADING">>

\* -------------------------------------------------------------------- C15
\* the chat completion raised, or what it answered is not JSON
CallFailed == response.kind \in {"raise", "malformed"}

\* C15: when the summarization call fails, the run still completes: the process
\* ends with exit status 0 and a FINAL payload that has a diagnostic for each
\* record.
C15_FallbackOnFailure ==
  (CallFailed /\ mpc = "exited") =>
    /\ status = "exit 0"
    /\ \E k \in Finals : Len(stdout[k].data) = Len(leaks)

\* -------------------------------------------------------------------- C16
\* the run ended in a call of fail()
Fatal == status = "exit 1" /\ stderr \in FailMsgs

\* C16: a run that ends in a fatal error has printed no payload on standard
\* output, neither LOADING nor FINAL.
C16_NothingStructuredOnFatal == Fatal => stdout = <<>>

\* -------------------------------------------------------------------- C17
\* at most one LOADING, at most one FINAL, LOADING first; a run that succeeded
\* printed exactly one FINAL, and printed it last
OnePayloadEach ==
  /\ Tags \in {<<>>, <<"LOADING">>, <<"FINAL">>, <<"LOADING", "FINAL">>}
  /\ status = "exit 0" =>
       /\ Cardinality(Finals) = 1
       /\ Tags[Len(Tags)] = "FINAL"
       /\ leaks # <<>> => Tags = <<"LOADING", "FINAL">>

\* a step prints LOADING only while the summarizer was not yet called, and
\* prints nothing once FINAL is out
PrintsInOrder ==
  /\ (Len(stdout') > Len(stdout) /\ stdout'[Len(stdout')].tag = "LOADING") =>
       /\ mpc = "extract_leaks"
       /\ mpc' = "summarize"
       /\ response = NoResponse
       /\ summaries_and_fixes = <<>>
  /\ Finals # {} => stdout' = stdout
  /\ SubSeq(stdout', 1, Len(stdout)) = stdout

\* C17: in every run at most one LOADING payload and at most one FINAL payload
\* are printed; LOADING is printed only before the summarization starts, a
\* successful run has exactly one FINAL payload after it, and nothing is printed
\* after FINAL.
C17_LoadingThenFinal == []OnePayloadEach /\ [][PrintsInOrder]_vars

C17_Witness ==
  /\ status = "exit 0"
  /\ Tags = <<"LOADING", "FINAL">>
  /\ Len(stdout[2].data) = 2

\* -------------------------------------------------------------------- C18
ConfigError == ~config.api_key \/ ~config.clang_tidy \/ ~config.clang

\* C18: when the API key is missing, or clang-tidy or clang is not found, the
\* process never calls extract_leaks: it is at a step before the call or it has
\* exited, and when it has exited the exit status is 1 with a message of fail().
C18_ConfigErrorsFatal ==
  ConfigError =>
    /\ invocation = 0
    /\ pc = "idle"
    /\ lines = <<>>
    /\ leaks = <<>>
    /\ stdout = <<>>
    /\ mpc \in {"setup", "main", "run_clang_tidy", "run_clang_ast", "exited"}
    /\ mpc = "exited" => (status = "exit 1" /\ stderr \in FailMsgs)

C18_Witness ==
  /\ config = [api_key |-> TRUE, argv |-> TRUE, clang_tidy |-> TRUE, clang |-> FALSE]
  /\ mpc = "exited"
  /\ status = "exit 1"
  /\ stderr = NoClangMsg

\* -------------------------------------------------------------------- C19
Max(S) == CHOOSE s \in S : \A t \in S : t <= s

\* C19: a header at the open block's exact location is appended to the block
\* and neither closes it nor opens another: the open block is every line read
\* since its first header, and at the return a run of headers at one location,
\* with the non-header lines between them, is one record at most, exactly one
\* when the run is the first block at its file and line, and that record's
\* raw_message is all the lines of the run in input order.
C19_SameLocationContinues ==
  LET bs == BlockStarts IN
    /\ bs # {} =>
         /\ current_block = SubSeq(lines, Max(bs), Len(lines))
         /\ current_location = LocAt(Max(bs))
    /\ Done =>
         \A s \in bs :
           LET recs == { k \in 1..Len(leaks) :
                          leaks[k].raw_message = Join(BlockOf(bs, s)) }
           IN /\ Cardinality(recs) <= 1
              /\ s \in FirstStarts(bs) => Cardinality(recs) = 1

\* header, text, the same header again: one record of the three lines
C19_Witness ==
  /\ Done
  /\ Len(lines) = 3
  /\ pattern(lines[1])
  /\ ~pattern(lines[2])
  /\ pattern(lines[3])
  /\ LocAt(3) = LocAt(1)
  /\ leaks = <<leak_entry(lines, LocAt(1))>>

\* -------------------------------------------------------------------- C20
\* C20: at the return, the (filename, lnum) pairs of the records are exactly
\* the (file, line - 1) pairs of the header lines of the input.
C20_Complete ==
  Done =>
    { RecKey(leaks[k]) : k \in 1..Len(leaks) } = { KeyAt(k) : k \in HeaderIdx }

\* headers at a repeated location around another one, and a non-header line
C20_Witness ==
  /\ Done
  /\ Len(lines) >= 4
  /\ \E a, b, c \in HeaderIdx :
       a < b /\ b < c /\ KeyAt(a) = KeyAt(c) /\ KeyAt(a) # KeyAt(b)
  /\ \E k \in 1..Len(lines) : ~pattern(lines[k])
  /\ Len(leaks) = 2
====
